---------------------------- MODULE Spec2Model ----------------------------
(***************************************************************************)
(* Discv5Discovery (src/src/libp2p/discv5.ts): the libp2p peer-discovery   *)
(* wrapper around the Discv5 engine.  The model covers record ingestion    *)
(* (addEnr, handleEnr), construction with boot records, the start/stop     *)
(* state machine and the findPeers polling loop.  JavaScript runs each     *)
(* piece of code between two awaits atomically, so every action below is   *)
(* one such piece.                                                         *)
(***************************************************************************)
EXTENDS Naturals, Sequences, FiniteSets, TLC

\* ------------------------------------------------------------- bounds
MaxStartCalls == 2    \* start() calls in one behaviour
MaxStopCalls == 2     \* stop() calls in one behaviour
MaxLookups == 2       \* findNode calls in one behaviour
MaxLen == 2           \* records in one findNode result
MaxRunLen == 3        \* the same, while the controller is never stopped
MaxNotify == 1        \* "discovered" notifications in one behaviour
MaxBoot == 3          \* records in options.bootEnrs

\* ------------------------------------------------------------ records
NoPort == "undefined"   \* a port the record does not declare
NoAddr == << >>         \* getLocationMultiaddr's undefined

\* An ENRInput: a decoded ENR object, or its text form (txt), which decodes
\* (wellFormed) or not.  udp, udp6, tcp, tcp6 are the declared ports, NoPort
\* when the record does not declare the endpoint; idOk says whether peerId()
\* can be derived from the record's key.
Enr(key, txt, wellFormed, udp, udp6, tcp, tcp6, idOk) ==
    [key |-> key, txt |-> txt, wellFormed |-> wellFormed, udp |-> udp,
     udp6 |-> udp6, tcp |-> tcp, tcp6 |-> tcp6, idOk |-> idOk]

\* ENR.decodeTxt succeeds on the input (an object needs no decoding).
Decodes(enr) == ~enr.txt \/ enr.wellFormed

\* typeof enr === "string" ? ENR.decodeTxt(enr) : enr
Decoded(enr) == IF enr.txt THEN [enr EXCEPT !.txt = FALSE] ELSE enr

\* new Multiaddr(`/${ipName}/${ipVal}/${protoName}/${protoVal}`)
Multiaddr(family, proto, port, key) == <<family, key, proto, port>>

\* ENR.getLocationMultiaddr(proto): the endpoint of the first address family
\* that declares one, undefined when neither does.
GetLocationMultiaddr(d, proto) ==
    LET p4 == IF proto = "udp" THEN d.udp ELSE d.tcp
        p6 == IF proto = "udp" THEN d.udp6 ELSE d.tcp6
    IN  IF p4 # NoPort THEN Multiaddr("ip4", proto, p4, d.key)
        ELSE IF p6 # NoPort THEN Multiaddr("ip6", proto, p6, d.key)
        ELSE NoAddr

\* ENR.peerId()
PeerId(d) == <<"peer", d.key>>

\* ---------------------------------------------------- record ingestion
\* A faulty udp check: a port missing on one family is enough to reject.
MutMissingUdp(d) == d.udp = NoPort \/ d.udp6 = NoPort

\* addEnr, line 108: the record declares no udp port on either family.
MissingUdp(d) == d.udp = NoPort /\ d.udp6 = NoPort

\* A faulty addEnr: it has no udp check, only decodeTxt can throw.
MutAddEnrThrows(enr) == ~Decodes(enr)

\* addEnr throws: decodeTxt fails, or the udp check of line 108.
AddEnrThrows(enr) == ~Decodes(enr) \/ MissingUdp(Decoded(enr))

AddEnrError(enr) ==
    IF ~Decodes(enr) THEN "DecodeError"
    ELSE IF MissingUdp(Decoded(enr)) THEN "invalid enr, missing udp information"
    ELSE "none"

\* A faulty addEnr: the record is never forwarded to the engine.
MutAddEnrStore(enr, st) == st

\* addEnr's effect on the engine's record store (this.discv5.addEnr).
AddEnrStore(enr, st) ==
    IF AddEnrThrows(enr) THEN st ELSE Append(st, Decoded(enr))

\* Faulty early returns of handleEnr: on the udp endpoint, and none at all.
MutHandleEnrIgnores(d) == GetLocationMultiaddr(d, "udp") = NoAddr
MutNoEarlyReturn(d) == FALSE

\* handleEnr, lines 116-119: the record is dropped without an event.
HandleEnrIgnores(d) == GetLocationMultiaddr(d, "tcp") = NoAddr

\* A faulty address list: the udp endpoint before the tcp endpoint.
MutPeerMultiaddrs(d) ==
    LET multiaddrTCP == GetLocationMultiaddr(d, "tcp")
        multiaddrUDP == GetLocationMultiaddr(d, "udp")
    IN  IF multiaddrUDP # NoAddr THEN <<multiaddrUDP, multiaddrTCP>>
        ELSE <<multiaddrTCP>>

\* handleEnr, line 123: the event's address list.
PeerMultiaddrs(d) ==
    LET multiaddrTCP == GetLocationMultiaddr(d, "tcp")
        multiaddrUDP == GetLocationMultiaddr(d, "udp")
    IN  IF multiaddrUDP # NoAddr THEN <<multiaddrTCP, multiaddrUDP>>
        ELSE <<multiaddrTCP>>

\* handleEnr up to its first suspension: the promise is rejected (decodeTxt
\* threw), resolved without an event, or waits for peerId().
HandleEnrCall(enr) ==
    IF ~Decodes(enr) THEN "rejected"
    ELSE IF HandleEnrIgnores(Decoded(enr)) THEN "returned"
    ELSE "awaitPeerId"

\* handleEnr after peerId() settled: the emitted event (src names the caller,
\* for the properties only).
PeerEvent(enr, src) ==
    [id |-> PeerId(Decoded(enr)), multiaddrs |-> PeerMultiaddrs(Decoded(enr)),
     src |-> src]

\* -------------------------------------------------------------- state
VARIABLES
    started,      \* this.started
    subs,         \* listeners of the engine's "discovered" that are handleEnr
    store,        \* the engine's record store: the records given to discv5.addEnr
    events,       \* the "peer" events emitted outside findPeers so far, in order
    pending,      \* handleEnr calls waiting for peerId() (boot, discovered, direct)
    rejected,     \* handleEnr calls outside findPeers whose promise was rejected
    epoch,        \* stop() calls that took effect so far
    starts,       \* the start() calls, in call order: epoch at the call, and pc
    stops,        \* the stop() calls, in call order: pc
    engineLog,    \* the engine's start and stop invocations, in order
    onLog,        \* discv5.on("discovered"): the epoch of the start() that made it
    offCount,     \* discv5.off("discovered") calls
    tasks,        \* the findPeers activations, in order of scheduling: pc, the
                  \* result enrs of the current lookup, the record idx whose
                  \* handleEnr is awaited, the "peer" events out emitted from
                  \* this lookup so far, and whether a stop() took effect while
                  \* the lookup was in flight (stale)
    lookups,      \* findNode calls so far
    notified,     \* "discovered" notifications so far
    arg,          \* the argument of the addEnr or handleEnr call, or the boot list
    pc,           \* how far that call, or the constructor, has run
    thrown        \* the error addEnr or the constructor threw, "none" if none

vars == <<started, subs, store, events, pending, rejected, epoch, starts, stops,
          engineLog, onLog, offCount, tasks, lookups, notified,
          arg, pc, thrown>>

lifecycleVars == <<epoch, starts, stops, engineLog, onLog, offCount, tasks,
                   lookups, notified>>

Remove(seq, i) == SubSeq(seq, 1, i - 1) \o SubSeq(seq, i + 1, Len(seq))

\* No lifecycle call made, no event emitted, no handleEnr call in flight.
NoCalls ==
    /\ events = << >>
    /\ pending = << >>
    /\ rejected = 0
    /\ epoch = 0
    /\ starts = << >>
    /\ stops = << >>
    /\ engineLog = << >>
    /\ onLog = << >>
    /\ offCount = 0
    /\ tasks = << >>
    /\ lookups = 0
    /\ notified = 0
    /\ thrown = "none"

\* --------------------------------------------------------- the inputs
Ports(p) == {NoPort, p}

\* Every shape of ENRInput: each endpoint declared or not, as an object, a
\* well-formed text or a malformed text, with a derivable peer id or not.
AllEnrs ==
    { Enr("n", txt, wf, udp, udp6, tcp, tcp6, idOk) :
        txt \in BOOLEAN, wf \in BOOLEAN, udp \in Ports("9000"),
        udp6 \in Ports("9006"), tcp \in Ports("4000"), tcp6 \in Ports("4006"),
        idOk \in BOOLEAN }

\* The records this model gives to lookups, notifications and boot lists.
EnrBoth == Enr("a", FALSE, TRUE, "9000", NoPort, "4000", NoPort, TRUE)
EnrUdp == Enr("b", FALSE, TRUE, "9000", NoPort, NoPort, NoPort, TRUE)
EnrNone == Enr("c", FALSE, TRUE, NoPort, NoPort, NoPort, NoPort, TRUE)
EnrTcp == Enr("f", FALSE, TRUE, NoPort, NoPort, "4000", NoPort, TRUE)
EnrBadId == Enr("d", FALSE, TRUE, "9000", NoPort, "4000", NoPort, FALSE)
EnrBadTxt == Enr("e", TRUE, FALSE, NoPort, NoPort, NoPort, NoPort, TRUE)
EnrTxt == Enr("g", TRUE, TRUE, "9000", NoPort, "4000", NoPort, TRUE)

\* ------------------------------------------- handleEnr outside the loop
\* handleEnr(enr) called by the constructor, by the "discovered" listener or
\* directly: its effect up to the first suspension.
HandleEnrStart(enr, src, pend) ==
    IF HandleEnrCall(enr) = "awaitPeerId" THEN Append(pend, [enr |-> enr, src |-> src])
    ELSE pend

\* peerId() of a waiting handleEnr call settles: the event is emitted (the
\* emit of line 121 runs after the await of line 122), or the promise rejects.
PeerIdSettles(i) ==
    /\ i \in DOMAIN pending
    /\ pending' = Remove(pending, i)
    /\ IF pending[i].enr.idOk
       THEN /\ events' = Append(events, PeerEvent(pending[i].enr, pending[i].src))
            /\ rejected' = rejected
       ELSE /\ events' = events
            /\ rejected' = rejected + 1
    /\ pc' = IF pc = "handleEnr" THEN "settled" ELSE pc
    /\ UNCHANGED <<started, subs, store, lifecycleVars, arg, thrown>>

\* ------------------------------------------ ingestion, call by call
\* The controller is stopped or running (its listener subscribed), with an
\* empty store or one that holds a boot record.
InitIngest ==
    /\ NoCalls
    /\ started \in BOOLEAN
    /\ subs = IF started THEN 1 ELSE 0
    /\ store \in {<< >>, <<EnrBoth>>}
    /\ arg \in AllEnrs
    /\ pc = "ready"

\* addEnr(arg)
CallAddEnr ==
    /\ pc = "ready"
    /\ store' = AddEnrStore(arg, store)
    /\ thrown' = AddEnrError(arg)
    /\ pc' = "addEnr"
    /\ UNCHANGED <<started, subs, events, pending, rejected, lifecycleVars, arg>>

\* handleEnr(arg), to its first suspension
CallHandleEnr ==
    /\ pc = "ready"
    /\ pending' = HandleEnrStart(arg, "direct", pending)
    /\ rejected' = IF HandleEnrCall(arg) = "rejected" THEN rejected + 1 ELSE rejected
    /\ pc' = IF HandleEnrCall(arg) = "awaitPeerId" THEN "handleEnr" ELSE "settled"
    /\ UNCHANGED <<started, subs, store, events, lifecycleVars, arg, thrown>>

NextIngest ==
    \/ CallAddEnr
    \/ CallHandleEnr
    \/ \E i \in DOMAIN pending : PeerIdSettles(i)

SpecIngest == InitIngest /\ [][NextIngest]_vars

\* -------------------------------------------------------- construction
SeqsUpTo(S, n) == UNION { [1..k -> S] : k \in 0..n }

BootEnrs == {EnrBoth, EnrUdp, EnrTcp, EnrNone, EnrBadId, EnrBadTxt, EnrTxt}

\* options.bootEnrs.forEach, lines 65-68, from record i on: addEnr, which ends
\* the constructor when it throws, then handleEnr, which is not awaited.
RECURSIVE BootFrom(_, _, _)
BootFrom(boot, i, acc) ==
    IF i > Len(boot) THEN acc
    ELSE IF AddEnrThrows(boot[i]) THEN [acc EXCEPT !.thrown = AddEnrError(boot[i])]
    ELSE BootFrom(boot, i + 1,
            [store |-> AddEnrStore(boot[i], acc.store),
             pending |-> HandleEnrStart(boot[i], "boot", acc.pending),
             rejected |-> IF HandleEnrCall(boot[i]) = "rejected"
                          THEN acc.rejected + 1 ELSE acc.rejected,
             thrown |-> "none"])

InitBoot ==
    /\ NoCalls
    /\ started = FALSE
    /\ subs = 0
    /\ store = << >>
    /\ arg \in SeqsUpTo(BootEnrs, MaxBoot)
    /\ pc = "new"

\* new Discv5Discovery(options), lines 55-69
Constructor ==
    /\ pc = "new"
    /\ LET r == BootFrom(arg, 1, [store |-> store, pending |-> pending,
                                  rejected |-> rejected, thrown |-> "none"])
       IN  /\ store' = r.store
           /\ pending' = r.pending
           /\ rejected' = r.rejected
           /\ thrown' = r.thrown
           /\ pc' = IF r.thrown = "none" THEN "constructed" ELSE "threw"
    /\ started' = FALSE
    /\ UNCHANGED <<subs, events, lifecycleVars, arg>>

NextBoot ==
    \/ Constructor
    \/ \E i \in DOMAIN pending : PeerIdSettles(i)

SpecBoot == InitBoot /\ [][NextBoot]_vars

\* ------------------------------------------------------------ lifecycle
\* The state after new Discv5Discovery(options) with no boot record.
Init ==
    /\ NoCalls
    /\ started = FALSE
    /\ subs = 0
    /\ store = << >>
    /\ arg = << >>
    /\ pc = "constructed"

\* Faulty guards: start() and stop() never return early.
MutStartIsNoop == FALSE
MutStopIsNoop == FALSE

\* start(), lines 72-74: the call returns at once.
StartIsNoop == started

\* stop(), lines 82-84: the call returns at once.
StopIsNoop == ~started

\* A faulty start(): it does not set the flag.
MutStartedAfterStart == started

\* start(), line 75: this.started = true
StartedAfterStart == TRUE

\* start() to its suspension at line 76
Start ==
    /\ Len(starts) < MaxStartCalls
    /\ IF StartIsNoop
       THEN /\ starts' = Append(starts, [epoch |-> epoch, pc |-> "noop"])
            /\ UNCHANGED <<started, engineLog>>
       ELSE /\ started' = StartedAfterStart
            /\ engineLog' = Append(engineLog, [op |-> "start", epoch |-> epoch])
            /\ starts' = Append(starts, [epoch |-> epoch, pc |-> "await"])
    /\ UNCHANGED <<subs, store, events, pending, rejected, epoch, stops, onLog,
                   offCount, tasks, lookups, notified, arg, pc, thrown>>

NewTask == [pc |-> "scheduled", enrs |-> << >>, idx |-> 0, out |-> << >>, stale |-> FALSE]

\* discv5.start() resolved: lines 77-78 of the i-th start() call
StartResolves(i) ==
    /\ i \in DOMAIN starts
    /\ starts[i].pc = "await"
    /\ starts' = [starts EXCEPT ![i].pc = "resolved"]
    /\ subs' = subs + 1
    /\ onLog' = Append(onLog, starts[i].epoch)
    /\ tasks' = Append(tasks, NewTask)
    /\ UNCHANGED <<started, store, events, pending, rejected, epoch, stops,
                   engineLog, offCount, lookups, notified, arg, pc,
                   thrown>>

\* A faulty start(): it resets the flag when the engine's start fails.
MutStartedAfterReject == FALSE

\* start(), line 76: nothing catches the rejection, the flag stays as it is.
StartedAfterReject == started

\* discv5.start() rejected: the i-th start() call rejects at line 76
StartRejects(i) ==
    /\ i \in DOMAIN starts
    /\ starts[i].pc = "await"
    /\ starts' = [starts EXCEPT ![i].pc = "rejected"]
    /\ started' = StartedAfterReject
    /\ UNCHANGED <<subs, store, events, pending, rejected, epoch, stops,
                   engineLog, onLog, offCount, tasks, lookups, notified, arg, pc, thrown>>

\* The tasks with every lookup in flight (findNode called, not yet settled)
\* marked stale.
MarkInFlight(ts) ==
    [t \in DOMAIN ts |-> IF ts[t].pc = "lookup" THEN [ts[t] EXCEPT !.stale = TRUE]
                         ELSE ts[t]]

\* stop() to its suspension at line 87.  EventEmitter.off removes one
\* registration of the listener when there is one.
Stop ==
    /\ Len(stops) < MaxStopCalls
    /\ IF StopIsNoop
       THEN /\ stops' = Append(stops, [pc |-> "noop"])
            /\ UNCHANGED <<started, subs, epoch, engineLog, offCount, tasks>>
       ELSE /\ started' = FALSE
            /\ epoch' = epoch + 1
            /\ subs' = IF subs > 0 THEN subs - 1 ELSE 0
            /\ offCount' = offCount + 1
            /\ engineLog' = Append(engineLog, [op |-> "stop", epoch |-> epoch])
            /\ tasks' = MarkInFlight(tasks)
            /\ stops' = Append(stops, [pc |-> "await"])
    /\ UNCHANGED <<store, events, pending, rejected, starts, onLog, lookups,
                   notified, arg, pc, thrown>>

\* discv5.stop() settled: the i-th stop() call resolves, or rejects
StopSettles(i, how) ==
    /\ i \in DOMAIN stops
    /\ stops[i].pc = "await"
    /\ stops' = [stops EXCEPT ![i].pc = how]
    /\ UNCHANGED <<started, subs, store, events, pending, rejected, epoch, starts,
                   engineLog, onLog, offCount, tasks, lookups, notified, arg, pc, thrown>>

\* ------------------------------------------------------- the polling loop
LookupEnrs == {EnrBoth, EnrNone}
RunLookupEnrs == {EnrBoth, EnrUdp, EnrNone, EnrBadId}
NotifyEnrs == {EnrBoth, EnrNone}

\* findPeers, line 91: the loop condition.
LoopContinues == started

\* findPeers, lines 95-97: the results of the lookup are dropped.
DiscardsResults == ~started

\* findPeers at while (this.started): findNode is called, or findPeers returns.
AtLoopHead(t) ==
    /\ LoopContinues => lookups < MaxLookups
    /\ IF LoopContinues
       THEN /\ lookups' = lookups + 1
            /\ tasks' = [tasks EXCEPT ![t] = [NewTask EXCEPT !.pc = "lookup"]]
       ELSE /\ lookups' = lookups
            /\ tasks' = [tasks EXCEPT ![t] = [NewTask EXCEPT !.pc = "returned"]]
    /\ UNCHANGED <<started, subs, store, events, pending, rejected, epoch, starts,
                   stops, engineLog, onLog, offCount, notified, arg,
                   pc, thrown>>

\* setTimeout(() => this.findPeers(), 1) of line 78 fires
FindPeers(t) ==
    /\ t \in DOMAIN tasks
    /\ tasks[t].pc = "scheduled"
    /\ AtLoopHead(t)

\* the timer of line 102 fires
IntervalElapsed(t) ==
    /\ t \in DOMAIN tasks
    /\ tasks[t].pc = "sleep"
    /\ AtLoopHead(t)

\* A faulty for loop: it steps over every other record.
MutAfterRecord(task) ==
    IF task.idx + 1 < Len(task.enrs)
    THEN [task EXCEPT !.pc = "ingest", !.idx = task.idx + 2]
    ELSE [task EXCEPT !.pc = "sleep"]

\* A faulty loop: it calls findNode again without the wait of line 102.
MutNoWait(task) ==
    IF task.idx < Len(task.enrs)
    THEN [task EXCEPT !.pc = "ingest", !.idx = task.idx + 1]
    ELSE [NewTask EXCEPT !.pc = "lookup"]

\* The task after the handleEnr call of record idx has settled without an
\* error: handleEnr of the next record runs to its suspension, or the loop
\* reaches the wait of line 102.
AfterRecord(task) ==
    IF task.idx < Len(task.enrs)
    THEN [task EXCEPT !.pc = "ingest", !.idx = task.idx + 1]
    ELSE [task EXCEPT !.pc = "sleep"]

\* findNode of line 94 resolves with enrs
LookupReturns(t, enrs) ==
    /\ t \in DOMAIN tasks
    /\ tasks[t].pc = "lookup"
    /\ tasks' = [tasks EXCEPT ![t] =
                   IF DiscardsResults THEN [tasks[t] EXCEPT !.pc = "returned"]
                   ELSE AfterRecord([tasks[t] EXCEPT !.enrs = enrs])]
    /\ UNCHANGED <<started, subs, store, events, pending, rejected, epoch, starts,
                   stops, engineLog, onLog, offCount, lookups, notified, arg, pc, thrown>>

\* findNode of line 94 rejects: findPeers rejects, nothing catches it
LookupFails(t) ==
    /\ t \in DOMAIN tasks
    /\ tasks[t].pc = "lookup"
    /\ tasks' = [tasks EXCEPT ![t].pc = "failed"]
    /\ UNCHANGED <<started, subs, store, events, pending, rejected, epoch, starts,
                   stops, engineLog, onLog, offCount, lookups, notified, arg, pc, thrown>>

\* await this.handleEnr(enr) of line 99 settles for record idx: handleEnr
\* returned early, emitted its event once peerId() resolved, or rejected,
\* which ends findPeers.
HandleEnrSettles(t) ==
    /\ t \in DOMAIN tasks
    /\ tasks[t].pc = "ingest"
    /\ LET task == tasks[t]
           enr == task.enrs[task.idx]
           call == HandleEnrCall(enr)
       IN  IF call = "rejected" \/ (call = "awaitPeerId" /\ ~enr.idOk)
           THEN tasks' = [tasks EXCEPT ![t].pc = "failed"]
           ELSE tasks' = [tasks EXCEPT ![t] = AfterRecord(
                    IF call = "awaitPeerId"
                    THEN [task EXCEPT !.out = Append(@, PeerEvent(enr, "lookup"))]
                    ELSE task)]
    /\ UNCHANGED <<started, subs, store, events, pending, rejected, epoch, starts,
                   stops, engineLog, onLog, offCount, lookups, notified, arg, pc,
                   thrown>>

\* The engine emits "discovered" with enr: every registration of the listener
\* calls handleEnr(enr).
RECURSIVE Listeners(_, _, _)
Listeners(n, enr, pend) ==
    IF n = 0 THEN pend ELSE Listeners(n - 1, enr, HandleEnrStart(enr, "discovered", pend))

Discovered(enr) ==
    /\ subs > 0
    /\ notified < MaxNotify
    /\ notified' = notified + 1
    /\ pending' = Listeners(subs, enr, pending)
    /\ rejected' = IF HandleEnrCall(enr) = "rejected" THEN rejected + subs ELSE rejected
    /\ UNCHANGED <<started, subs, store, events, epoch, starts, stops, engineLog,
                   onLog, offCount, tasks, lookups, arg, pc, thrown>>

Next ==
    \/ Start
    \/ \E i \in DOMAIN starts : StartResolves(i)
    \/ \E i \in DOMAIN starts : StartRejects(i)
    \/ Stop
    \/ \E i \in DOMAIN stops : StopSettles(i, "resolved")
    \/ \E i \in DOMAIN stops : StopSettles(i, "rejected")
    \/ \E t \in DOMAIN tasks : FindPeers(t)
    \/ \E t \in DOMAIN tasks, enrs \in SeqsUpTo(LookupEnrs, MaxLen) : LookupReturns(t, enrs)
    \/ \E t \in DOMAIN tasks : LookupFails(t)
    \/ \E t \in DOMAIN tasks : HandleEnrSettles(t)
    \/ \E t \in DOMAIN tasks : IntervalElapsed(t)
    \/ \E enr \in NotifyEnrs : Discovered(enr)
    \/ \E i \in DOMAIN pending : PeerIdSettles(i)

Spec == Init /\ [][Next]_vars

\* The controller that is never stopped: the same operations without stop(),
\* with longer lookup results over more shapes of record.
NextRunning ==
    \/ Start
    \/ \E i \in DOMAIN starts : StartResolves(i)
    \/ \E i \in DOMAIN starts : StartRejects(i)
    \/ \E t \in DOMAIN tasks : FindPeers(t)
    \/ \E t \in DOMAIN tasks, enrs \in SeqsUpTo(RunLookupEnrs, MaxRunLen) : LookupReturns(t, enrs)
    \/ \E t \in DOMAIN tasks : LookupFails(t)
    \/ \E t \in DOMAIN tasks : HandleEnrSettles(t)
    \/ \E t \in DOMAIN tasks : IntervalElapsed(t)
    \/ \E enr \in NotifyEnrs : Discovered(enr)
    \/ \E i \in DOMAIN pending : PeerIdSettles(i)

SpecRunning == Init /\ [][NextRunning]_vars

\* A settlement of the engine's call or a firing of the timer that task t, or
\* the i-th start() call, waits for.
TaskResumes(t) ==
    \/ FindPeers(t)
    \/ \E enrs \in SeqsUpTo(RunLookupEnrs, MaxRunLen) : LookupReturns(t, enrs)
    \/ LookupFails(t)
    \/ HandleEnrSettles(t)
    \/ IntervalElapsed(t)

StartSettles(i) == StartResolves(i) \/ StartRejects(i)

\* The never stopped controller in an environment where every engine call
\* and every peerId() call settles, by success or by failure, and every timer
\* fires: no call that is waited for stays pending forever.
SpecRunningFair ==
    /\ SpecRunning
    /\ \A i \in 1..MaxStartCalls : WF_vars(StartSettles(i))
    /\ \A t \in 1..MaxStartCalls : WF_vars(TaskResumes(t))

\* ============================================================== properties
\* What the properties say of a record, in the words of the specification.
HasDatagram(r) == r.udp # NoPort \/ r.udp6 # NoPort
HasStream(r) == r.tcp # NoPort \/ r.tcp6 # NoPort
ValidlyDecoded(r) == Decodes(r) /\ r.idOk
DatagramEndpoint(r) == GetLocationMultiaddr(Decoded(r), "udp")
StreamEndpoint(r) == GetLocationMultiaddr(Decoded(r), "tcp")

\* The "peer" events of a sequence, without the caller's tag.
Emitted(evs) == [i \in DOMAIN evs |-> [id |-> evs[i].id, multiaddrs |-> evs[i].multiaddrs]]

\* The event expected of record r with the address list addrs.
Expect(r, addrs) == [id |-> PeerId(Decoded(r)), multiaddrs |-> addrs]

\* Some stop() call has resolved, and no start() or stop() call is in progress
\* or was made since: the controller is stopped.
StopResolved ==
    /\ ~started
    /\ \E i \in DOMAIN stops : stops[i].pc = "resolved"
    /\ \A i \in DOMAIN stops : stops[i].pc \in {"resolved", "noop"}
    /\ \A i \in DOMAIN starts : starts[i].pc # "await"

\* Task t emits a "peer" event in this step.
LoopEmits(t) ==
    /\ t \in DOMAIN tasks
    /\ t \in DOMAIN tasks'
    /\ Len(tasks'[t].out) > Len(tasks[t].out)

\* C1: after a stop() call has resolved, the polling loop's lookup path emits
\* no further "peer" event, whatever the loop was doing when stop() was called.
C1_NoLookupEventAfterStop ==
    [][StopResolved => \A t \in DOMAIN tasks : ~LoopEmits(t)]_vars

\* C2: between two stop() calls that took effect (and before the first), all
\* the start() calls together invoke the engine's start at most once and
\* subscribe the "discovered" listener at most once.
C2_StartIdempotent ==
    \A e \in 0..epoch :
        /\ Cardinality({ i \in DOMAIN engineLog :
                           engineLog[i] = [op |-> "start", epoch |-> e] }) <= 1
        /\ Cardinality({ i \in DOMAIN onLog : onLog[i] = e }) <= 1

\* C2's case: a second start() call was made while the first was still
\* waiting for the engine's start, with no stop() in between.
C2_Witness ==
    \E i, j \in DOMAIN starts :
        /\ i < j
        /\ starts[i].epoch = starts[j].epoch
        /\ starts[i].pc = "await"
        /\ starts[j].pc = "noop"

\* C3: as long as start() was never called, stop() calls do nothing: the
\* engine's stop is not invoked, nothing is unsubscribed, the flag stays false.
C3_StopBeforeStartIsNoop ==
    starts = << >> =>
        /\ \A i \in DOMAIN engineLog : engineLog[i].op # "stop"
        /\ offCount = 0
        /\ subs = 0
        /\ started = FALSE
        /\ \A i \in DOMAIN stops : stops[i].pc = "noop"

\* C3's case: stop() was called and start() never was.
C3_Witness == starts = << >> /\ Len(stops) > 0

\* C4: addEnr of a record with no udp port on either family throws and leaves
\* the engine's store as it was; addEnr of a record with a udp port on some
\* family appends the record to the store and throws nothing.
C4_AddEnrStrict ==
    [][(pc = "ready" /\ pc' = "addEnr" /\ Decodes(arg)) =>
         IF HasDatagram(arg)
         THEN thrown' = "none" /\ store' = Append(store, Decoded(arg))
         ELSE thrown' # "none" /\ store' = store]_vars

\* C4's case: addEnr has rejected a record that has a stream endpoint but no
\* datagram endpoint, with a record already in the store.
C4_Witness ==
    /\ pc = "addEnr"
    /\ Decodes(arg) /\ ~HasDatagram(arg) /\ HasStream(arg)
    /\ thrown = "invalid enr, missing udp information"
    /\ store = <<EnrBoth>>

\* handleEnr(arg) has run to its end.
HandleEnrDone == pc = "settled" /\ pending = << >>

C7_EndpointLessIgnored ==
    [][(pc = "ready" /\ pc' \in {"handleEnr", "settled"} /\ Decodes(arg)
          /\ ~HasDatagram(arg) /\ ~HasStream(arg)) =>
         /\ pc' = "settled"
         /\ events' = events /\ pending' = pending /\ rejected' = rejected
         /\ started' = started /\ subs' = subs /\ store' = store]_vars

\* C7's case: handleEnr has returned for an endpoint-less record on a running
\* controller whose store holds a record.
C7_Witness ==
    /\ pc = "settled"
    /\ Decodes(arg) /\ ~HasDatagram(arg) /\ ~HasStream(arg)
    /\ started /\ subs = 1 /\ store = <<EnrBoth>>
    /\ events = << >> /\ rejected = 0

\* The controller was constructed with exactly one boot record, a validly
\* decoded one with a datagram endpoint, and every handleEnr call has settled.
OneBootRecord ==
    /\ pc = "constructed"
    /\ Len(arg) = 1
    /\ ValidlyDecoded(arg[1]) /\ HasDatagram(arg[1])
    /\ pending = << >>

ValidBySpec(r) == ValidlyDecoded(r) /\ HasDatagram(r)
EndpointLess(r) == Decodes(r) /\ ~HasDatagram(r) /\ ~HasStream(r)

\* The records of the current lookup of task t whose handleEnr call has settled.
Ingested(t) ==
    IF tasks[t].pc = "ingest" THEN SubSeq(tasks[t].enrs, 1, tasks[t].idx - 1)
    ELSE tasks[t].enrs

\* The peer ids of the events of a sequence, and of the records of a sequence.
EventIds(evs) == [i \in DOMAIN evs |-> evs[i].id]
RecordIds(rs) == [i \in DOMAIN rs |-> PeerId(Decoded(rs[i]))]

C10_StaleLookupDiscarded ==
    \A t \in DOMAIN tasks : tasks[t].stale => tasks[t].out = << >>

\* The epoch of the start() call that scheduled task t: line 77 and line 78
\* run together, so the t-th subscription and the t-th task are of one call.
ScheduledIn(t) == onLog[t]

\* A stop() call took effect after the start() call that scheduled task t.
StoppedSince(t) == ScheduledIn(t) < epoch

\* Task t calls findNode in this step.
IssuesLookup(t) ==
    /\ t \in DOMAIN tasks
    /\ tasks[t].pc # "lookup"
    /\ tasks'[t].pc = "lookup"

\* C11: once a stop() call has set the flag to false, the polling loop that
\* the start() before it scheduled issues no further findNode lookup, whatever
\* is called afterwards.
C11_NoLookupAfterStop ==
    [][\A t \in DOMAIN tasks : StoppedSince(t) => ~IssuesLookup(t)]_vars

\* Task t is an activation of findPeers that has not returned: it is suspended
\* in its lookup, in the ingestion of a record or in its interval wait.
Active(t) == tasks[t].pc \in {"lookup", "ingest", "sleep"}

\* C12: at most one activation of findPeers that has not returned exists at
\* any time, over every interleaving of start() and stop() calls.
C12_OneLoopTask ==
    Cardinality({ t \in DOMAIN tasks : Active(t) }) <= 1

\* No start() or stop() call is waiting for the engine.
NoCallInProgress ==
    /\ \A i \in DOMAIN starts : starts[i].pc # "await"
    /\ \A i \in DOMAIN stops : stops[i].pc # "await"

\* C13: every subscription of the "discovered" listener made by a start() call
\* is removed by the stop() call paired with it, so whenever the flag is false
\* and no start() or stop() call is in progress the listener is not subscribed.
C13_UnsubscribedWhenStopped ==
    (~started /\ NoCallInProgress) => subs = 0

\* C14: the invocations of the engine's start and of the engine's stop
\* alternate strictly, beginning with a start, over every interleaving of
\* start() and stop() calls, failed engine starts included.
C14_EngineStartStopAlternate ==
    \A i \in DOMAIN engineLog :
        engineLog[i].op = IF i % 2 = 1 THEN "start" ELSE "stop"

\* C14's case: the engine was started, stopped, started and stopped again, the
\* first start() call failed and the second is still waiting for the engine.
C14_Witness ==
    /\ Len(engineLog) = 4
    /\ Len(starts) = 2
    /\ starts[1].pc = "rejected"
    /\ starts[2].pc = "await"

\* C15: a record of a lookup result whose ingestion fails (its text does not
\* decode, or its peer id cannot be derived) does not end the polling loop:
\* when the handleEnr call of a record settles, the loop goes on to the next
\* record of the result, or to its interval wait after the last one.
C15_BadRecordDoesNotAbort ==
    [][\A t \in DOMAIN tasks :
         tasks[t].pc = "ingest" => tasks'[t].pc \in {"ingest", "sleep"}]_vars

\* A start() call has completed with success.
StartSucceeded == \E i \in DOMAIN starts : starts[i].pc = "resolved"

\* C16: after a successful start(), as long as stop() is never called and
\* every engine call and timer completes, the polling loop goes on issuing
\* findNode lookups: whatever the number n of lookups issued so far (below the
\* number this model follows), one more is issued eventually.
C16_LoopRepeats ==
    \A n \in 0..(MaxLookups - 1) :
        (StartSucceeded /\ lookups = n) ~> (lookups > n)

\* The invocations of the engine's start made in epoch e.
EngineStartsIn(e) ==
    { k \in DOMAIN engineLog : engineLog[k] = [op |-> "start", epoch |-> e] }

\* C17: a start() call whose engine start failed has rejected, has subscribed
\* no listener and has scheduled no polling loop; as long as no stop() call
\* has taken effect since, the flag is true, every later start() call has
\* returned at once, and the engine's start was invoked that one time only.
C17_FailedStart ==
    \A i \in DOMAIN starts :
        starts[i].pc = "rejected" =>
            /\ \A k \in DOMAIN onLog : onLog[k] # starts[i].epoch
            /\ \A t \in DOMAIN tasks : ScheduledIn(t) # starts[i].epoch
            /\ epoch = starts[i].epoch =>
                 /\ started
                 /\ \A j \in DOMAIN starts : j > i => starts[j].pc = "noop"
                 /\ Cardinality(EngineStartsIn(epoch)) = 1

\* C17's case: the engine's start failed in the first start() call, and a
\* second start() call was made with no stop() in between.
C17_Witness ==
    /\ Len(starts) = 2
    /\ starts[1].pc = "rejected"
    /\ starts[2].epoch = starts[1].epoch
    /\ stops = << >>

\* A boot record that ends construction: it has no datagram endpoint on
\* either family, or it is a text that does not decode.
InvalidBoot(r) == ~Decodes(r) \/ ~HasDatagram(r)

\* The index of the first such record of a boot list, one past its end when
\* every record is valid.
FirstInvalid(boot) ==
    IF \E i \in DOMAIN boot : InvalidBoot(boot[i])
    THEN CHOOSE i \in DOMAIN boot :
            InvalidBoot(boot[i]) /\ \A j \in 1..(i - 1) : ~InvalidBoot(boot[j])
    ELSE Len(boot) + 1

\* The handleEnr calls that wait for peerId() when rs, in order, were passed
\* to handleEnr by the constructor.
BootCalls(rs) ==
    LET ws == SelectSeq(rs, HasStream)
    IN  [i \in DOMAIN ws |-> [enr |-> ws[i], src |-> "boot"]]

\* C18: construction fails at the first boot record without a datagram
\* endpoint (or whose text does not decode); exactly the records before it
\* are in the engine's store, decoded and in list order, and exactly they were
\* passed to handleEnr, in list order; the invalid record and those after it
\* are not stored and produce no "peer" event.  Construction on a list of
\* valid records stores and passes to handleEnr every record, in list order.
\* The flag is false in both cases.
C18_InvalidBootAborts ==
    pc \in {"constructed", "threw"} =>
        LET k == FirstInvalid(arg)
            before == SubSeq(arg, 1, k - 1)
            calls == BootCalls(before)
        IN  /\ (pc = "threw") = (k <= Len(arg))
            /\ thrown = IF k > Len(arg) THEN "none"
                        ELSE IF Decodes(arg[k])
                             THEN "invalid enr, missing udp information"
                             ELSE "DecodeError"
            /\ store = [i \in DOMAIN before |-> Decoded(before[i])]
            /\ started = FALSE /\ starts = << >>
            /\ Len(pending) + Len(events) + rejected = Len(calls)
            /\ (events = << >> /\ rejected = 0) => pending = calls
            /\ \A e \in DOMAIN events :
                   \E c \in DOMAIN calls :
                       events[e] = PeerEvent(calls[c].enr, "boot")
            /\ pending = << >> =>
                   rejected = Len(SelectSeq(before, LAMBDA r : HasStream(r) /\ ~r.idOk))

\* C18's case: construction failed at the second of three boot records, one
\* with a stream endpoint and no datagram endpoint; the first record is in the
\* store and has produced its event, the other two have produced nothing.
C18_Witness ==
    /\ pc = "threw"
    /\ arg = <<EnrBoth, EnrTcp, EnrTxt>>
    /\ store = <<EnrBoth>>
    /\ Len(events) = 1
    /\ pending = << >>

\* Task t reaches its interval wait in this step.
StartsWait(t) == tasks[t].pc # "sleep" /\ tasks'[t].pc = "sleep"

\* Task t goes on to the handleEnr call of a record in this step.
StartsRecord(t) ==
    /\ tasks'[t].pc = "ingest"
    /\ tasks'[t] # tasks[t]

\* C19: a polling loop calls findNode only when it is first run or when its
\* interval wait has ended, and with the flag true; it reaches the interval
\* wait only from the settled handleEnr call of the last record of its lookup
\* (or from a lookup without records), and it takes the records one by one, in
\* order.  So between two lookups of one loop lie the ingestion of every
\* record of the earlier lookup, one interval wait and a check of the flag.
C19_LookupsPaced ==
    [][\A t \in DOMAIN tasks :
         /\ IssuesLookup(t) =>
               /\ started
               /\ tasks[t].pc \in {"scheduled", "sleep"}
         /\ StartsWait(t) =>
               \/ tasks[t].pc = "ingest" /\ tasks[t].idx = Len(tasks[t].enrs)
               \/ tasks[t].pc = "lookup" /\ tasks'[t].enrs = << >>
         /\ StartsRecord(t) =>
               /\ tasks[t].pc \in {"lookup", "ingest"}
               /\ tasks'[t].idx = tasks[t].idx + 1
               /\ tasks'[t].idx <= Len(tasks'[t].enrs)]_vars

\* C19's case: one polling loop has called findNode a second time.
C19_Witness ==
    /\ Len(tasks) = 1
    /\ tasks[1].pc = "lookup"
    /\ lookups = 2

\* The start() calls that invoked the engine's start.
EngineStarters == { i \in DOMAIN starts : starts[i].pc # "noop" }

\* The most recent invocation of the engine's start has completed with
\* success, and the engine's stop has not been invoked since.
EngineReady ==
    /\ engineLog # << >>
    /\ engineLog[Len(engineLog)].op = "start"
    /\ \E i \in EngineStarters :
          /\ \A j \in EngineStarters : j <= i
          /\ starts[i].pc = "resolved"

\* C20: whenever a polling loop calls findNode, the most recent engine start
\* has completed with success and no engine stop has been invoked since.
C20_LookupOnStartedEngine ==
    [][(\E t \in DOMAIN tasks : IssuesLookup(t)) => EngineReady]_vars

=============================================================================
